---- MODULE Spec2Model ----
(***************************************************************************)
(* The model circuit of zkml (src/src/model.rs) and the public verifier   *)
(* entry point (src/src/interface.rs).                                     *)
(*                                                                         *)
(* Machine words are modelled at WordBits bits in place of 64 and the      *)
(* scalar field by the prime FieldModulus > 2^WordBits in place of the     *)
(* 254-bit modulus; the codec bias 1 << 31 becomes 1 << BiasShift, which   *)
(* keeps its place strictly inside the signed word range.                  *)
(***************************************************************************)
EXTENDS Integers, Sequences, FiniteSets, TLC

\* ------------------------------------------------------------------ bounds
MaxCircuits == 2
MaxLayers == 2
MaxTensors == 2
MaxTensorId == 2
MaxCols == 2
MaxK == 11
MaxPublic == 2

\* ------------------------------------------------------- words and field
WordBits == 20
BiasShift == 9
FieldModulus == 2147483647

RECURSIVE Pow2(_)
Pow2(n) == IF n = 0 THEN 1 ELSE 2 * Pow2(n - 1)

\* `x as u64`: the two's complement reading of a signed word
AsU64(x) == x % Pow2(WordBits)

\* F::from(u64)
FFrom(u) == u % FieldModulus

\* subtraction of field elements
FSub(a, b) == (a - b) % FieldModulus

\* F::zero(), F::one()
FZero == 0
FOne == 1

\* the field element congruent to the integer n
FieldOf(n) == n % FieldModulus

\* x << n on a signed word, for 0 <= n < WordBits - 1
Shl(x, n) == x * Pow2(n)

\* ------------------------------------------------------ quantization codec
to_value(x) ==
  LET bias == Shl(1, BiasShift)
      x_pos == x + bias
  IN FSub(FFrom(AsU64(x_pos)), FFrom(AsU64(bias)))

\* ------------------------------------------------------------ enumerations
GadgetType ==
  {"AddPairs", "Adder", "BiasDivRoundRelu6", "BiasDivFloorRelu6", "DotProduct",
   "Exp", "Logistic", "VarDivRound", "SqrtBig", "Square", "SquaredDiff",
   "SubPairs", "Rsqrt", "MulPairs", "Packer"}

\* the tags match_layer recognises, with the LayerType each one selects
LayerTags ==
  [AveragePool2D |-> "AvgPool2D", Add |-> "Add", BatchMatMul |-> "BatchMatMul",
   Conv2D |-> "Conv2D", FullyConnected |-> "FullyConnected",
   Logistic |-> "Logistic", MaskNegInf |-> "MaskNegInf", Mean |-> "Mean",
   Mul |-> "Mul", Noop |-> "Noop", Pad |-> "Pad", Reshape |-> "Reshape",
   Rsqrt |-> "Rsqrt", Softmax |-> "Softmax", Square |-> "Square",
   SquaredDifference |-> "SquaredDifference", Sub |-> "Sub",
   Transpose |-> "Transpose"]

LayerType == {LayerTags[t] : t \in DOMAIN LayerTags}

match_layer(x) == IF x \in DOMAIN LayerTags THEN LayerTags[x] ELSE "panic"

\* ---------------------------------------------------------------- helpers
Range(s) == {s[i] : i \in DOMAIN s}

\* the iteration orders a HashMap or HashSet over S can have
Orders(S) ==
  {s \in [1..Cardinality(S) -> S] : \A i, j \in 1..Cardinality(S) : s[i] = s[j] => i = j}

RECURSIVE Product(_)
Product(shape) == IF shape = <<>> THEN 1 ELSE Head(shape) * Product(Tail(shape))

EmptyMap == [x \in {} |-> x]

\* HashMap::insert
Insert(m, key, v) == [x \in DOMAIN m \cup {key} |-> IF x = key THEN v ELSE m[x]]

\* ------------------------------------------------------- model description
\* ModelMsgpack as load_model_msgpack returns it.  Of a layer only the tag is
\* kept: its params, shapes, mask and tensor indexes are copied unread into
\* the DAG configuration.
Desc(sf, k, cols, tensors, layers) ==
  [global_sf |-> sf, k |-> k, num_cols |-> cols, tensors |-> tensors, layers |-> layers]

Flat(idx, shape, data) == [idx |-> idx, shape |-> shape, data |-> data]

NoDesc == Desc(0, 0, 0, <<>>, <<>>)

\* ---------------------------------------------------------------- registry
\* GadgetConfig::default(): every number zero, every collection empty.  The
\* used-gadget set is kept as the sequence its iteration yields.
\* Column vectors are kept as the number of columns they hold.
DefaultGadgetConfig ==
  [scale_factor |-> 0, shift_min_val |-> 0, div_outp_min_val |-> 0, min_val |-> 0,
   max_val |-> 0, num_rows |-> 0, num_cols |-> 0, used_gadgets |-> <<>>,
   columns |-> 0, public_columns |-> 0, fixed_columns |-> 0]

\* ------------------------------------------------------ generate_from_file
\* the loop over config.tensors: [ok, map]; not ok when from_shape_vec fails
RECURSIVE load_tensors(_, _)
load_tensors(flats, acc) ==
  IF flats = <<>> THEN [ok |-> TRUE, map |-> acc]
  ELSE LET flat == Head(flats)
           value_flat == [i \in DOMAIN flat.data |-> to_value(flat.data[i])]
       IN IF Product(flat.shape) # Len(flat.data)
          THEN [ok |-> FALSE, map |-> acc]
          ELSE load_tensors(Tail(flats),
                 Insert(acc, flat.idx, [shape |-> flat.shape, data |-> value_flat]))

\* the map over config.layers: [ok, ops, used]; not ok on an unknown tag
RECURSIVE load_layers(_, _, _, _)
load_layers(layers, chips, ops, used) ==
  IF layers = <<>> THEN [ok |-> TRUE, ops |-> ops, used |-> used]
  ELSE LET layer_type == match_layer(Head(layers))
       IN IF layer_type = "panic"
          THEN [ok |-> FALSE, ops |-> ops, used |-> used]
          ELSE load_layers(Tail(layers), chips, Append(ops, layer_type),
                           used \cup chips[layer_type])

NoCircuit ==
  [status |-> "none", used_gadgets |-> <<>>, ops |-> <<>>,
   tensors |-> [order |-> <<>>, map |-> EmptyMap], desc |-> NoDesc, trace |-> <<>>]

\* the registry value the load writes
new_gadget_config(config, used_gadgets, cloned_gadget) ==
  [cloned_gadget EXCEPT
     !.scale_factor = AsU64(config.global_sf),
     !.shift_min_val = -(config.global_sf * config.global_sf * 1024),
     !.div_outp_min_val = -Shl(1, config.k - 1),
     !.min_val = -Shl(1, config.k - 1),
     !.max_val = Shl(1, config.k - 1) - 10,
     !.num_rows = Shl(1, config.k) - 10,
     !.num_cols = AsU64(config.num_cols),
     !.used_gadgets = used_gadgets]

\* a load that writes the registry before it has parsed the description
generate_from_file_writes_first(config, chips, tord, gord, registry) ==
  LET t == load_tensors(config.tensors, EmptyMap)
      l == load_layers(config.layers, chips, <<>>, {})
      written == new_gadget_config(config, gord, registry)
  IN IF ~t.ok
     THEN [status |-> "panic", registry |-> written,
           circuit |-> [NoCircuit EXCEPT !.status = "panic", !.desc = config,
                                         !.trace = <<"registry", "tensors", "panic">>]]
     ELSE IF ~l.ok
     THEN [status |-> "panic", registry |-> written,
           circuit |-> [NoCircuit EXCEPT !.status = "panic", !.desc = config,
                                         !.trace = <<"registry", "tensors", "layers", "panic">>]]
     ELSE [status |-> "ok", registry |-> written,
           circuit |-> [status |-> "loaded", used_gadgets |-> gord, ops |-> l.ops,
                        tensors |-> [order |-> tord, map |-> t.map], desc |-> config,
                        trace |-> <<"registry", "tensors", "layers", "return">>]]

\* [status, registry, circuit]: the registry after the call and the circuit it
\* returns.  tord and gord are the iteration orders of the tensor map and of
\* the used-gadget set the call builds.
generate_from_file(config, chips, tord, gord, registry) ==
  LET t == load_tensors(config.tensors, EmptyMap)
      l == load_layers(config.layers, chips, <<>>, {})
  IN IF ~t.ok
     THEN [status |-> "panic", registry |-> registry,
           circuit |-> [NoCircuit EXCEPT !.status = "panic", !.desc = config,
                                         !.trace = <<"tensors", "panic">>]]
     ELSE IF ~l.ok
     THEN [status |-> "panic", registry |-> registry,
           circuit |-> [NoCircuit EXCEPT !.status = "panic", !.desc = config,
                                         !.trace = <<"tensors", "layers", "panic">>]]
     ELSE [status |-> "ok", registry |-> new_gadget_config(config, gord, registry),
           circuit |-> [status |-> "loaded", used_gadgets |-> gord, ops |-> l.ops,
                        tensors |-> [order |-> tord, map |-> t.map], desc |-> config,
                        trace |-> <<"tensors", "layers", "registry", "return">>]]

\* --------------------------------------------------------------- configure
\* the loop over the used-gadget set: [ok, log], log the kinds configured so
\* far in order; not ok when an arm panics
RECURSIVE configure_gadgets_again(_, _)
configure_gadgets_again(used, log) ==
  IF used = <<>> THEN [ok |-> TRUE, log |-> log]
  ELSE LET gadget_type == Head(used)
       IN IF gadget_type \in {"BiasDivFloorRelu6", "Packer"}
          THEN [ok |-> FALSE, log |-> log]
          ELSE configure_gadgets_again(Tail(used), Append(log, gadget_type))

RECURSIVE configure_gadgets(_, _)
configure_gadgets(used, log) ==
  IF used = <<>> THEN [ok |-> TRUE, log |-> log]
  ELSE LET gadget_type == Head(used)
       IN IF gadget_type = "BiasDivRoundRelu6"
          THEN configure_gadgets(Tail(used), log)
          ELSE IF gadget_type \in {"BiasDivFloorRelu6", "Packer"}
          THEN [ok |-> FALSE, log |-> log]
          ELSE configure_gadgets(Tail(used), Append(log, gadget_type))

NoConfig == [status |-> "none", gadget_config |-> DefaultGadgetConfig, configured |-> <<>>]

\* ModelConfig, from the registry as it is when the call reads it
configure(registry) ==
  LET gadget_config == [registry EXCEPT !.columns = registry.num_cols,
                                        !.public_columns = 1,
                                        !.fixed_columns = 1]
      r == configure_gadgets(gadget_config.used_gadgets, <<"BiasDivRoundRelu6">>)
  IN [status |-> IF r.ok THEN "configured" ELSE "panic",
      gadget_config |-> gadget_config,
      configured |-> r.log]

\* ---------------------------------------------------------- assign_tensors
\* the cells of one tensor, its first element going to cell number cell_idx
assign_cells(data, cell_idx, num_columns) ==
  [i \in DOMAIN data |->
     [row |-> (cell_idx + i - 1) \div num_columns,
      col |-> (cell_idx + i - 1) % num_columns,
      val |-> data[i]]]

\* the while loop and the store of lines 97-100 (vec index t is position t + 1)
place_tensor(assigned_tensors, tensor_idx, tensor) ==
  LET n == Len(assigned_tensors)
      m == IF n <= tensor_idx THEN tensor_idx + 1 ELSE n
  IN [i \in 1..m |->
        IF i = tensor_idx + 1 THEN tensor
        ELSE IF i <= n THEN assigned_tensors[i] ELSE tensor]

RECURSIVE assign_tensors_from(_, _, _, _, _, _)
assign_tensors_restarting(order, map, num_columns, cell_idx, assigned_tensors, writes) ==
  IF order = <<>> THEN [ok |-> TRUE, tensors |-> assigned_tensors, writes |-> writes]
  ELSE LET tensor == map[Head(order)]
       IN IF num_columns = 0 /\ tensor.data # <<>>
          THEN [ok |-> FALSE, tensors |-> assigned_tensors, writes |-> writes]
          ELSE LET flat == assign_cells(tensor.data, 0, num_columns)
               IN assign_tensors_from(Tail(order), map, num_columns, 0,
                    place_tensor(assigned_tensors, Head(order),
                                 [shape |-> tensor.shape, cells |-> flat]),
                    writes \o flat)

\* the loop over the tensor map in its iteration order: [ok, tensors, writes];
\* not ok when the cell arithmetic divides by zero columns
assign_tensors_from(order, map, num_columns, cell_idx, assigned_tensors, writes) ==
  IF order = <<>> THEN [ok |-> TRUE, tensors |-> assigned_tensors, writes |-> writes]
  ELSE LET tensor == map[Head(order)]
       IN IF num_columns = 0 /\ tensor.data # <<>>
          THEN [ok |-> FALSE, tensors |-> assigned_tensors, writes |-> writes]
          ELSE LET flat == assign_cells(tensor.data, cell_idx, num_columns)
               IN assign_tensors_from(Tail(order), map, num_columns,
                    cell_idx + Len(flat),
                    place_tensor(assigned_tensors, Head(order),
                                 [shape |-> tensor.shape, cells |-> flat]),
                    writes \o flat)

assign_tensors(num_columns, tensors) ==
  assign_tensors_from(tensors.order, tensors.map, num_columns, 0, <<>>, <<>>)

\* -------------------------------------------------------- assign_constants
\* `sf as i64`
AsI64(u) == IF u >= Pow2(WordBits - 1) THEN u - Pow2(WordBits) ELSE u

FixedCell(row, val) == [row |-> row, val |-> val]

assign_constants_max_val(gadget_config) ==
  LET sf == gadget_config.scale_factor
      min_val == gadget_config.min_val
      max_val == gadget_config.max_val
      zero == FixedCell(0, FZero)
      one == FixedCell(1, FOne)
      sf_cell == FixedCell(2, FFrom(sf))
      min_val_cell == FixedCell(3, FSub(FZero, FFrom(AsU64(-min_val))))
      max_val_cell == FixedCell(4, FFrom(AsU64(max_val)))
  IN [writes |-> <<zero, one, sf_cell, min_val_cell, max_val_cell>>,
      constants |->
        Insert(Insert(Insert(Insert(Insert(EmptyMap, 0, zero), 1, one),
                             AsI64(sf), sf_cell), min_val, min_val_cell),
               max_val, max_val_cell)]

\* HashMap::entry(key).or_insert(v)
InsertIfAbsent(m, key, v) == IF key \in DOMAIN m THEN m ELSE Insert(m, key, v)

assign_constants_first_wins(gadget_config) ==
  LET sf == gadget_config.scale_factor
      min_val == gadget_config.min_val
      max_val == gadget_config.max_val
      zero == FixedCell(0, FZero)
      one == FixedCell(1, FOne)
      sf_cell == FixedCell(2, FFrom(sf))
      min_val_cell == FixedCell(3, FSub(FZero, FFrom(AsU64(-min_val))))
      max_val_cell == FixedCell(4, FFrom(AsU64(max_val - 1)))
  IN [writes |-> <<zero, one, sf_cell, min_val_cell, max_val_cell>>,
      constants |->
        InsertIfAbsent(InsertIfAbsent(InsertIfAbsent(InsertIfAbsent(
          InsertIfAbsent(EmptyMap, 0, zero), 1, one),
          AsI64(sf), sf_cell), min_val, min_val_cell), max_val, max_val_cell)]

\* [writes, constants]: the fixed-column cells written, in order, and the map
\* returned
assign_constants(gadget_config) ==
  LET sf == gadget_config.scale_factor
      min_val == gadget_config.min_val
      max_val == gadget_config.max_val
      zero == FixedCell(0, FZero)
      one == FixedCell(1, FOne)
      sf_cell == FixedCell(2, FFrom(sf))
      min_val_cell == FixedCell(3, FSub(FZero, FFrom(AsU64(-min_val))))
      max_val_cell == FixedCell(4, FFrom(AsU64(max_val - 1)))
  IN [writes |-> <<zero, one, sf_cell, min_val_cell, max_val_cell>>,
      constants |->
        Insert(Insert(Insert(Insert(Insert(EmptyMap, 0, zero), 1, one),
                             AsI64(sf), sf_cell), min_val, min_val_cell),
               max_val, max_val_cell)]

\* -------------------------------------------------------------- synthesize
\* the gadget kinds whose arm in synthesize loads a lookup table
LoadSupported ==
  {"AddPairs", "Adder", "BiasDivRoundRelu6", "DotProduct", "VarDivRound", "Rsqrt",
   "Exp", "Logistic"}

\* one step of witness assignment, as the layouter sees it
Event(op, gadget, row, col, val) ==
  [op |-> op, gadget |-> gadget, row |-> row, col |-> col, val |-> val]

\* the loop over self.used_gadgets: [ok, log]; not ok on "unsupported gadget"
RECURSIVE load_lookups(_, _)
load_lookups(used, log) ==
  IF used = <<>> THEN [ok |-> TRUE, log |-> log]
  ELSE IF Head(used) \in LoadSupported
       THEN load_lookups(Tail(used), Append(log, Event("load_lookups", Head(used), 0, 0, 0)))
       ELSE [ok |-> FALSE, log |-> log]

NoRun == [status |-> "none", log |-> <<>>, tensors |-> <<>>, constants |-> EmptyMap]

\* [status, log, tensors, constants]: the steps taken in order and what the
\* DAG executor is handed
synthesize(circuit, config) ==
  LET l == load_lookups(circuit.used_gadgets, <<>>)
      t == assign_tensors(config.gadget_config.columns, circuit.tensors)
      c == assign_constants(config.gadget_config)
      advice == [i \in DOMAIN t.writes |->
                   Event("assign_advice", "-", t.writes[i].row, t.writes[i].col, t.writes[i].val)]
      fixed == [i \in DOMAIN c.writes |->
                  Event("assign_fixed", "-", c.writes[i].row, 0, c.writes[i].val)]
  IN IF ~l.ok
     THEN [NoRun EXCEPT !.status = "panic", !.log = l.log]
     ELSE IF ~t.ok
     THEN [NoRun EXCEPT !.status = "panic", !.log = l.log \o advice]
     ELSE [status |-> "done",
           log |-> l.log \o advice \o fixed \o <<Event("dag_forward", "-", 0, 0, 0)>>,
           tensors |-> t.tensors,
           constants |-> c.constants]

\* -------------------------------------------------------------------- state
VARIABLES
  GADGET_CONFIG,   \* the process-wide registry
  chip_gadgets,    \* GadgetConsumer::used_gadgets of each layer chip
  circuits,        \* the ModelCircuit each load returned
  configs,         \* the ModelConfig configure returned for each circuit
  runs,            \* the outcome of synthesize for each circuit
  ver              \* the outcome of the call of verify

vars == <<GADGET_CONFIG, chip_gadgets, circuits, configs, runs, ver>>

Circuits == 1..MaxCircuits

NoVerify ==
  [status |-> "idle", log |-> <<>>, vk |-> <<>>, proof |-> <<>>, public_vals |-> <<>>,
   config |-> <<>>, k |-> 0, n |-> 0, instances |-> <<>>]

\* the declarations the layer chips can make, every chip outside pool
\* declaring nothing
ChipTablesOver(pool, G) ==
  {[t \in LayerType |-> IF t \in pool THEN f[t] ELSE {}] : f \in [pool -> G]}

InitWith(tables) ==
  /\ GADGET_CONFIG = DefaultGadgetConfig
  /\ chip_gadgets \in tables
  /\ circuits = [c \in Circuits |-> NoCircuit]
  /\ configs = [c \in Circuits |-> NoConfig]
  /\ runs = [c \in Circuits |-> NoRun]
  /\ ver = NoVerify

\* ------------------------------------------------------------------ actions
\* ModelCircuit::generate_from_file on a description of D.  The call touches
\* the registry in two locked steps, a clone and the store; the clone only
\* supplies the fields no load ever changes, so the store is the one step
\* another thread can observe.
Load(c, D) ==
  /\ circuits[c].status = "none"
  /\ \E d \in D :
       LET t == load_tensors(d.tensors, EmptyMap)
           l == load_layers(d.layers, chip_gadgets, <<>>, {})
       IN \E tord \in Orders(DOMAIN t.map), gord \in Orders(l.used) :
            LET r == generate_from_file(d, chip_gadgets, tord, gord, GADGET_CONFIG)
            IN /\ circuits' = [circuits EXCEPT ![c] = r.circuit]
               /\ GADGET_CONFIG' = r.registry
  /\ UNCHANGED <<chip_gadgets, configs, runs, ver>>

\* Circuit::configure, called for circuit c
Configure(c) ==
  /\ circuits[c].status = "loaded"
  /\ configs[c].status = "none"
  /\ configs' = [configs EXCEPT ![c] = configure(GADGET_CONFIG)]
  /\ UNCHANGED <<GADGET_CONFIG, chip_gadgets, circuits, runs, ver>>

\* Circuit::synthesize of circuit c with the config configure returned
Synthesize(c) ==
  /\ configs[c].status = "configured"
  /\ runs[c].status = "none"
  /\ runs' = [runs EXCEPT ![c] = synthesize(circuits[c], configs[c])]
  /\ UNCHANGED <<GADGET_CONFIG, chip_gadgets, circuits, configs, ver>>

\* ------------------------------------------------- constants of a model
\* scale factors and row parameters; no tensors, no layers
SfSet == {-1, 0, 1, 2, 6, 22}

ConstDescs == {Desc(sf, k, 1, <<>>, <<>>) : sf \in SfSet, k \in 1..MaxK}

NoChips == ChipTablesOver({}, {{}})

InitConstants == InitWith(NoChips)

NextConstants == Load(1, ConstDescs) \/ Configure(1) \/ Synthesize(1)

SpecConstants == InitConstants /\ [][NextConstants]_vars

\* the fixed-column cells a run wrote, in order
FixedWrites(log) ==
  LET w == SelectSeq(log, LAMBDA e : e.op = "assign_fixed")
  IN [i \in DOMAIN w |-> FixedCell(w[i].row, w[i].val)]

\* C1: after assign_constants the fixed column holds at rows 0..4, in that
\* order, the field elements congruent to 0, 1, scale_factor, min_val and
\* max_val - 1 of the registry (min_val <= 0, max_val >= 1), and no other row
\* is written.
C1_ConstantRows ==
  \A c \in Circuits :
    LET gc == configs[c].gadget_config
    IN (runs[c].status = "done" /\ gc.min_val <= 0 /\ gc.max_val >= 1) =>
         FixedWrites(runs[c].log) =
           <<FixedCell(0, FieldOf(0)), FixedCell(1, FieldOf(1)),
             FixedCell(2, FieldOf(gc.scale_factor)), FixedCell(3, FieldOf(gc.min_val)),
             FixedCell(4, FieldOf(gc.max_val - 1))>>

C1_Witness ==
  \E c \in Circuits :
    /\ runs[c].status = "done"
    /\ configs[c].gadget_config.min_val < 0
    /\ configs[c].gadget_config.max_val > 1
    /\ configs[c].gadget_config.scale_factor > 1
    /\ Len(FixedWrites(runs[c].log)) = 5

\* the keys assign_constants inserts, in insertion order; the constant
\* inserted at position i lives at fixed row i - 1
ConstantKeys(gc) == <<0, 1, AsI64(gc.scale_factor), gc.min_val, gc.max_val>>

SeqsUpTo(S, n) == UNION {[1..m -> S] : m \in 0..n}

\* what one chip can declare: nothing, any one kind, or the pair of an affine
\* layer
GadgetChoices ==
  {{}} \cup {{g} : g \in GadgetType} \cup {{"BiasDivRoundRelu6", "DotProduct"}}

GadgetDescs ==
  {Desc(1, 5, 1, <<Flat(0, <<1>>, <<3>>)>>, layers) :
     layers \in SeqsUpTo({"AveragePool2D", "Add"}, MaxLayers)}

InitGadgets == InitWith(ChipTablesOver({"AvgPool2D", "Add"}, GadgetChoices))

NextGadgets == Load(1, GadgetDescs) \/ Configure(1) \/ Synthesize(1)

SpecGadgets == InitGadgets /\ [][NextGadgets]_vars

Count(s, x) == Cardinality({i \in DOMAIN s : s[i] = x})

\* C4: configure configures bias-divide-round-relu6 first and exactly once,
\* also when the used-gadget set holds it, and every other kind of the set
\* exactly once in whatever order the set iterates; it panics exactly when the
\* set holds BiasDivFloorRelu6 or Packer.
C4_ConfiguredOnceBdrFirst ==
  \A c \in Circuits :
    LET used == Range(configs[c].gadget_config.used_gadgets)
        log == configs[c].configured
    IN /\ configs[c].status # "none" =>
            /\ log # <<>> /\ log[1] = "BiasDivRoundRelu6"
            /\ Count(log, "BiasDivRoundRelu6") = 1
            /\ configs[c].status = "panic" <=>
                 used \cap {"BiasDivFloorRelu6", "Packer"} # {}
       /\ configs[c].status = "configured" =>
            /\ Range(log) = used \cup {"BiasDivRoundRelu6"}
            /\ \A g \in used : Count(log, g) = 1

\* the set holds the fixed gadget and two more, and does not iterate it first
C4_Witness ==
  \E c \in Circuits :
    /\ configs[c].status = "configured"
    /\ Len(configs[c].gadget_config.used_gadgets) = 3
    /\ configs[c].gadget_config.used_gadgets[3] = "BiasDivRoundRelu6"
    /\ Len(configs[c].configured) = 3

LoadedKinds(log) == {log[i].gadget : i \in {j \in DOMAIN log : log[j].op = "load_lookups"}}

\* C2 as stated: synthesize loads the table of bias-divide-round-relu6 and of
\* every kind of the used set before it assigns any tensor or constant; with
\* a kind that has no load arm in the set it panics before any assignment and
\* before the DAG executor runs.
C2_AllTablesThenAssignments ==
  \A c \in Circuits :
    LET used == Range(circuits[c].used_gadgets)
        log == runs[c].log
    IN runs[c].status # "none" =>
         IF used \subseteq LoadSupported
         THEN /\ runs[c].status = "done"
              /\ used \cup {"BiasDivRoundRelu6"} \subseteq LoadedKinds(log)
              /\ \A i, j \in DOMAIN log :
                   (log[i].op = "load_lookups" /\ log[j].op # "load_lookups") => i < j
         ELSE /\ runs[c].status = "panic"
              /\ \A i \in DOMAIN log : log[i].op = "load_lookups"

\* ---------------------------------------------------- tensors of a model
TensorShapes == {<<>>, <<2>>, <<1, 2>>, <<0>>}

\* n values that tell the elements of different tensors apart
TensorData(idx, n) == [i \in 1..n |-> 10 * idx + i - 2]

TensorFlats ==
  {Flat(idx, sh, TensorData(idx, Product(sh))) : idx \in 0..MaxTensorId, sh \in TensorShapes}

TensorDescs ==
  {Desc(1, 5, cols, ts, <<>>) : cols \in 0..MaxCols, ts \in SeqsUpTo(TensorFlats, MaxTensors)}

InitTensors == InitWith(NoChips)

NextTensors == Load(1, TensorDescs) \/ Configure(1) \/ Synthesize(1)

SpecTensors == InitTensors /\ [][NextTensors]_vars

\* the advice cells a run assigned, in order
AdviceWrites(log) ==
  LET w == SelectSeq(log, LAMBDA e : e.op = "assign_advice")
  IN [i \in DOMAIN w |-> [row |-> w[i].row, col |-> w[i].col, val |-> w[i].val]]

\* the number of elements of the tensors visited before position p of order
RECURSIVE ElementsBefore(_, _, _)
ElementsBefore(order, map, p) ==
  IF p <= 1 THEN 0
  ELSE ElementsBefore(order, map, p - 1) + Len(map[order[p - 1]].data)

\* C5: the n-th element assign_tensors assigns (from 0, over the tensors in
\* the order visited, each in row-major order) goes to row n / num_cols and
\* column n % num_cols; no two elements share a cell; and for every tensor id
\* t the returned vector holds at index t the shape of tensor t and exactly
\* the cells assigned for t.
C5_RowMajorPlacement ==
  \A c \in Circuits :
    LET order == circuits[c].tensors.order
        map == circuits[c].tensors.map
        num_cols == configs[c].gadget_config.columns
        advice == AdviceWrites(runs[c].log)
        vec == runs[c].tensors
    IN runs[c].status = "done" =>
         /\ Len(advice) = ElementsBefore(order, map, Len(order) + 1)
         /\ \A n \in DOMAIN advice :
              advice[n].row = (n - 1) \div num_cols /\ advice[n].col = (n - 1) % num_cols
         /\ \A i, j \in DOMAIN advice :
              (advice[i].row = advice[j].row /\ advice[i].col = advice[j].col) => i = j
         /\ \A p \in DOMAIN order :
              LET t == order[p]
                  first == ElementsBefore(order, map, p)
              IN /\ t + 1 \in DOMAIN vec
                 /\ vec[t + 1].shape = map[t].shape
                 /\ Len(vec[t + 1].cells) = Len(map[t].data)
                 /\ \A i \in DOMAIN map[t].data :
                      /\ vec[t + 1].cells[i] = advice[first + i]
                      /\ vec[t + 1].cells[i].val = map[t].data[i]

\* two tensors of two elements visited against their ids, with an id between
\* them that no tensor has, on fewer columns than elements
C5_Witness ==
  \E c \in Circuits :
    /\ runs[c].status = "done"
    /\ Len(circuits[c].tensors.order) = 2
    /\ circuits[c].tensors.order[1] > circuits[c].tensors.order[2] + 1
    /\ Len(AdviceWrites(runs[c].log)) = 4
    /\ configs[c].gadget_config.columns \in 1..3

\* -------------------------------------------------- two runs of one model
RunFlats == {Flat(idx, <<2>>, TensorData(idx, 2)) : idx \in 0..MaxTensorId}

RunDescs == {Desc(1, 5, cols, ts, <<>>) : cols \in 1..2, ts \in SeqsUpTo(RunFlats, MaxTensors)}

InitRuns == InitWith(NoChips)

NextRuns == \E c \in Circuits : Load(c, RunDescs) \/ Configure(c) \/ Synthesize(c)

SpecRuns == InitRuns /\ [][NextRuns]_vars

\* C7 as stated: two runs of phase 2 on the same model description and input
\* tensors assign every input element to the same cell and hand the DAG
\* executor the same vector of assigned tensors, slot by slot.
C7_SameModelSameAssignment ==
  \A c1, c2 \in Circuits :
    (/\ runs[c1].status = "done" /\ runs[c2].status = "done"
     /\ circuits[c1].desc = circuits[c2].desc) =>
       /\ Range(AdviceWrites(runs[c1].log)) = Range(AdviceWrites(runs[c2].log))
       /\ runs[c1].tensors = runs[c2].tensors

\* ------------------------------------------- several models in one process
\* an affine layer needs the fixed gadget and the dot product, an addition
\* the pairwise adder
AffineChips ==
  {[t \in LayerType |->
      IF t = "Conv2D" THEN {"BiasDivRoundRelu6", "DotProduct"}
      ELSE IF t = "Add" THEN {"AddPairs"} ELSE {}]}

\* two sound models of different sizing and gadgets, an empty model, a model
\* with an unknown layer tag and a model whose tensor has one element too few
ModelDescs ==
  {Desc(1, 5, 1, <<Flat(0, <<2>>, <<3, 4>>)>>, <<"Conv2D">>),
   Desc(2, 6, 2, <<Flat(1, <<1>>, <<-7>>)>>, <<"Add">>),
   Desc(3, 7, 2, <<>>, <<>>),
   Desc(2, 6, 2, <<Flat(1, <<1>>, <<-7>>)>>, <<"Add", "Unknown">>),
   Desc(1, 5, 1, <<Flat(0, <<2>>, <<3>>)>>, <<"Conv2D">>)}

Init == InitWith(AffineChips)

Next == \E c \in Circuits : Load(c, ModelDescs) \/ Configure(c) \/ Synthesize(c)

Spec == Init /\ [][Next]_vars

\* the gadgets the layers of a circuit declare
RECURSIVE RequiredGadgets(_, _)
RequiredGadgets(ops, chips) ==
  IF ops = <<>> THEN {} ELSE chips[Head(ops)] \cup RequiredGadgets(Tail(ops), chips)

\* C3 as stated: whenever configure runs for a circuit, the gadget set and
\* the sizing parameters it reads from the registry are those the load of
\* that circuit's model wrote, so the configured set holds every gadget the
\* circuit's layers require.
C3_ConfigureReadsOwnModel ==
  \A c \in Circuits :
    LET gc == configs[c].gadget_config
        d == circuits[c].desc
    IN configs[c].status # "none" =>
         /\ RequiredGadgets(circuits[c].ops, chip_gadgets) \subseteq Range(gc.used_gadgets)
         /\ gc.used_gadgets = circuits[c].used_gadgets
         /\ gc.scale_factor = d.global_sf
         /\ gc.num_cols = d.num_cols
         /\ gc.min_val = -Pow2(d.k - 1)

\* the 18 tags of the model description format
RecognisedTags ==
  {"AveragePool2D", "Add", "BatchMatMul", "Conv2D", "FullyConnected", "Logistic",
   "MaskNegInf", "Mean", "Mul", "Noop", "Pad", "Reshape", "Rsqrt", "Softmax", "Square",
   "SquaredDifference", "Sub", "Transpose"}

Malformed(d) ==
  \/ \E i \in DOMAIN d.layers : d.layers[i] \notin RecognisedTags
  \/ \E i \in DOMAIN d.tensors : Product(d.tensors[i].shape) # Len(d.tensors[i].data)

\* C9: a load of a description with an unrecognised layer tag or a tensor
\* whose shape disagrees with its element count panics and leaves the
\* registry as it was before the load; any other load returns a circuit and
\* writes the registry exactly once, as its last step before returning.
C9_LoadStep(c) ==
  (circuits[c].status = "none" /\ circuits'[c].status # "none") =>
    IF Malformed(circuits'[c].desc)
    THEN /\ circuits'[c].status = "panic"
         /\ GADGET_CONFIG' = GADGET_CONFIG
         /\ Count(circuits'[c].trace, "registry") = 0
    ELSE LET trace == circuits'[c].trace
         IN /\ circuits'[c].status = "loaded"
            /\ Count(trace, "registry") = 1
            /\ Len(trace) >= 2
            /\ trace[Len(trace) - 1] = "registry" /\ trace[Len(trace)] = "return"
            /\ GADGET_CONFIG'.used_gadgets = circuits'[c].used_gadgets
            /\ GADGET_CONFIG'.scale_factor = circuits'[c].desc.global_sf
            /\ GADGET_CONFIG'.num_cols = circuits'[c].desc.num_cols
            /\ GADGET_CONFIG'.max_val = Pow2(circuits'[c].desc.k - 1) - 10

C9_AbortLeavesRegistry == [][\A c \in Circuits : C9_LoadStep(c)]_vars

\* a load has panicked while the registry holds an earlier model's values
C9_Witness ==
  \E c1, c2 \in Circuits :
    /\ circuits[c1].status = "panic"
    /\ circuits[c2].status = "loaded"
    /\ GADGET_CONFIG # DefaultGadgetConfig
    /\ GADGET_CONFIG.used_gadgets = circuits[c2].used_gadgets

\* ------------------------------------------------------------------- codec
\* values at the ends of the declared range and around the bias
CodecSamples(k) ==
  {-Pow2(k - 1), 1 - Pow2(k - 1), -Pow2(BiasShift) - 1, -Pow2(BiasShift), -1, 0, 1,
   Pow2(k - 1) - 11}

CodecDescs ==
  {Desc(1, k, 1, <<Flat(0, <<1>>, <<x>>)>>, <<>>) : k \in 1..MaxK, x \in UNION {CodecSamples(j) : j \in 1..MaxK}}

InitCodec == InitWith(NoChips)

NextCodec == Load(1, CodecDescs) \/ Configure(1) \/ Synthesize(1)

SpecCodec == InitCodec /\ [][NextCodec]_vars

\* C6 as stated: for every x in [min_val, max_val) of the model, the value
\* the load stores is the field element congruent to x, and x + bias does not
\* wrap when it is converted to an unsigned word.
C6_EncodingCongruentInRange ==
  \A c \in Circuits :
    circuits[c].status = "loaded" =>
      LET d == circuits[c].desc
          min_val == -Pow2(d.k - 1)
          max_val == Pow2(d.k - 1) - 10
      IN \A i \in DOMAIN d.tensors :
           LET x == d.tensors[i].data[1]
           IN (min_val <= x /\ x < max_val) =>
                /\ circuits[c].tensors.map[d.tensors[i].idx].data[1] = FieldOf(x)
                /\ AsU64(x + Pow2(BiasShift)) = x + Pow2(BiasShift)

\* ------------------------------------------------------------------ verify
HexDigits ==
  <<"0", "1", "2", "3", "4", "5", "6", "7", "8", "9", "a", "b", "c", "d", "e", "f">>

HexVal(ch) == (CHOOSE i \in DOMAIN HexDigits : HexDigits[i] = ch) - 1

\* hex::decode: [ok, bytes]
hex_decode(str) ==
  IF Len(str) % 2 = 1 \/ \E i \in DOMAIN str : str[i] \notin Range(HexDigits)
  THEN [ok |-> FALSE, bytes |-> <<>>]
  ELSE [ok |-> TRUE,
        bytes |-> [i \in 1..(Len(str) \div 2) |->
                     16 * HexVal(str[2 * i - 1]) + HexVal(str[2 * i])]]

\* the serialized form of a model description: the byte string <<i>> stands
\* for the i-th description of the sequence
Serialized ==
  <<Desc(1, 5, 1, <<Flat(0, <<2>>, <<3, 4>>)>>, <<"Conv2D">>),
    Desc(2, 6, 2, <<Flat(1, <<1>>, <<-7>>)>>, <<"Add">>),
    Desc(2, 6, 2, <<Flat(1, <<1>>, <<-7>>)>>, <<"Add", "Unknown">>)>>

\* rmp_serde::from_slice: [ok, config]
from_slice(bytes) ==
  IF Len(bytes) = 1 /\ bytes[1] \in DOMAIN Serialized
  THEN [ok |-> TRUE, config |-> Serialized[bytes[1]]]
  ELSE [ok |-> FALSE, config |-> NoDesc]

\* VerifyingKey::read: it configures the circuit from the registry and reads
\* the key from the bytes, which fails on an empty blob: [ok]
read_vk(bytes, registry) ==
  [ok |-> configure(registry).status = "configured" /\ bytes # <<>>]

\* Fr::from_str_vartime on one decimal string: [ok, val]
RECURSIVE parse_decimal(_, _, _)
parse_decimal(str, res, first_digit) ==
  IF str = <<>> THEN [ok |-> TRUE, val |-> res]
  ELSE IF Head(str) \notin {HexDigits[i] : i \in 1..10} THEN [ok |-> FALSE, val |-> 0]
  ELSE IF first_digit /\ Head(str) = "0" THEN [ok |-> FALSE, val |-> 0]
  ELSE parse_decimal(Tail(str), (res * 10 + HexVal(Head(str))) % FieldModulus, FALSE)

from_str_vartime(str) ==
  IF str = <<>> THEN [ok |-> FALSE, val |-> 0]
  ELSE IF str = <<"0">> THEN [ok |-> TRUE, val |-> 0]
  ELSE parse_decimal(str, 0, TRUE)

\* ModelCircuit::generate_from_msgpack: generate_from_file past the read of
\* the file
generate_from_msgpack(config, chips, tord, gord, registry) ==
  generate_from_file(config, chips, tord, gord, registry)

Call(vk, proof, public_vals, config) ==
  [NoVerify EXCEPT !.vk = vk, !.proof = proof, !.public_vals = public_vals,
                   !.config = config]

Panic(call, log) == [call EXCEPT !.status = "panic", !.log = Append(log, "panic")]

\* a verifier that drops the public values it cannot parse
verify_dropping(vk, proof, public_vals, config, chips, tord, gord, registry) ==
  LET call == Call(vk, proof, public_vals, config)
      config_buf == hex_decode(config)
      parsed == from_slice(config_buf.bytes)
      model == generate_from_msgpack(parsed.config, chips, tord, gord, registry)
      vk_buf == hex_decode(vk)
      key == read_vk(vk_buf.bytes, model.registry)
      proof_buf == hex_decode(proof)
      good == SelectSeq(public_vals, LAMBDA x : from_str_vartime(x).ok)
      vals == [i \in DOMAIN good |-> from_str_vartime(good[i]).val]
  IN IF ~config_buf.ok \/ ~parsed.ok \/ model.status = "panic"
     THEN [ver |-> Panic(call, <<"hex_config">>), registry |-> registry]
     ELSE IF ~vk_buf.ok \/ ~key.ok \/ ~proof_buf.ok
     THEN [ver |-> Panic(call, <<"hex_config", "from_slice", "generate_from_msgpack">>),
           registry |-> model.registry]
     ELSE [ver |-> [call EXCEPT
                      !.status = "returned",
                      !.log = <<"hex_config", "from_slice", "generate_from_msgpack",
                                "hex_vk", "read_vk", "hex_proof", "public_vals",
                                "params", "verify_kzg">>,
                      !.k = 24, !.n = Shl(1, 24), !.instances = vals],
           registry |-> model.registry]

\* [ver, registry]: the outcome of the call and the registry after it
verify(vk, proof, public_vals, config, chips, tord, gord, registry) ==
  LET call == Call(vk, proof, public_vals, config)
      config_buf == hex_decode(config)
      parsed == from_slice(config_buf.bytes)
      model == generate_from_msgpack(parsed.config, chips, tord, gord, registry)
      vk_buf == hex_decode(vk)
      key == read_vk(vk_buf.bytes, model.registry)
      proof_buf == hex_decode(proof)
      vals == [i \in DOMAIN public_vals |-> from_str_vartime(public_vals[i])]
  IN IF ~config_buf.ok
     THEN [ver |-> Panic(call, <<"hex_config">>), registry |-> registry]
     ELSE IF ~parsed.ok
     THEN [ver |-> Panic(call, <<"hex_config", "from_slice">>), registry |-> registry]
     ELSE IF model.status = "panic"
     THEN [ver |-> Panic(call, <<"hex_config", "from_slice", "generate_from_msgpack">>),
           registry |-> model.registry]
     ELSE IF ~vk_buf.ok
     THEN [ver |-> Panic(call, <<"hex_config", "from_slice", "generate_from_msgpack",
                                 "hex_vk">>),
           registry |-> model.registry]
     ELSE IF ~key.ok
     THEN [ver |-> Panic(call, <<"hex_config", "from_slice", "generate_from_msgpack",
                                 "hex_vk", "read_vk">>),
           registry |-> model.registry]
     ELSE IF ~proof_buf.ok
     THEN [ver |-> Panic(call, <<"hex_config", "from_slice", "generate_from_msgpack",
                                 "hex_vk", "read_vk", "hex_proof">>),
           registry |-> model.registry]
     ELSE IF \E i \in DOMAIN vals : ~vals[i].ok
     THEN [ver |-> Panic(call, <<"hex_config", "from_slice", "generate_from_msgpack",
                                 "hex_vk", "read_vk", "hex_proof", "public_vals">>),
           registry |-> model.registry]
     ELSE [ver |-> [call EXCEPT
                      !.status = "returned",
                      !.log = <<"hex_config", "from_slice", "generate_from_msgpack",
                                "hex_vk", "read_vk", "hex_proof", "public_vals",
                                "params", "verify_kzg">>,
                      !.k = 24, !.n = Shl(1, 24),
                      !.instances = [i \in DOMAIN vals |-> vals[i].val]],
           registry |-> model.registry]

\* one call of verify on strings of the pools
Verify(KEYS, PROOFS, VALUES, CONFIGS) ==
  /\ ver.status = "idle"
  /\ \E vk \in KEYS, proof \in PROOFS, config \in CONFIGS,
        public_vals \in SeqsUpTo(VALUES, MaxPublic) :
       LET d == from_slice(hex_decode(config).bytes).config
           t == load_tensors(d.tensors, EmptyMap)
           l == load_layers(d.layers, chip_gadgets, <<>>, {})
       IN \E tord \in Orders(DOMAIN t.map), gord \in Orders(l.used) :
            LET r == verify(vk, proof, public_vals, config, chip_gadgets, tord, gord,
                            GADGET_CONFIG)
            IN ver' = r.ver /\ GADGET_CONFIG' = r.registry
  /\ UNCHANGED <<chip_gadgets, circuits, configs, runs>>

HexStrings == {<<>>, <<"0", "1">>, <<"a", "b">>, <<"7">>, <<"0", "g">>}

ConfigStrings ==
  {<<>>, <<"0", "1">>, <<"0", "2">>, <<"0", "3">>, <<"f", "f">>, <<"0">>, <<"g", "1">>}

ValueStrings == {<<>>, <<"0">>, <<"7">>, <<"1", "2">>, <<"0", "1">>, <<"x">>}

InitVerify == InitWith(AffineChips)

NextVerify == Verify(HexStrings, HexStrings, ValueStrings, ConfigStrings)

SpecVerify == InitVerify /\ [][NextVerify]_vars

\* well-formed inputs, read off the strings
IsHexString(str) ==
  /\ Len(str) % 2 = 0
  /\ \A i \in DOMAIN str : str[i] \in {"0", "1", "2", "3", "4", "5", "6", "7", "8", "9",
                                        "a", "b", "c", "d", "e", "f"}

DecimalValue ==
  [str \in ValueStrings |->
     IF str = <<"0">> THEN 0 ELSE IF str = <<"7">> THEN 7
     ELSE IF str = <<"1", "2">> THEN 12 ELSE -1]

SoundConfigs == {<<"0", "1">>, <<"0", "2">>}

\* C8: verify panics on any input that fails to decode or parse and then never
\* runs the proof check; on any other input it rebuilds the circuit from the
\* description before it reads the key and runs the proof check exactly once,
\* with k = 24, n = 2^24 and the public values parsed in input order.
C8_VerifyAbortsOrChecksOnce ==
  ver.status # "idle" =>
    IF /\ ver.config \in SoundConfigs
       /\ IsHexString(ver.vk) /\ ver.vk # <<>>
       /\ IsHexString(ver.proof)
       /\ \A i \in DOMAIN ver.public_vals : DecimalValue[ver.public_vals[i]] >= 0
    THEN /\ ver.status = "returned"
         /\ Count(ver.log, "verify_kzg") = 1
         /\ \E i, j \in DOMAIN ver.log :
              i < j /\ ver.log[i] = "generate_from_msgpack" /\ ver.log[j] = "read_vk"
         /\ ver.k = 24
         /\ ver.n = Pow2(24)
         /\ ver.instances = [i \in DOMAIN ver.public_vals |-> DecimalValue[ver.public_vals[i]]]
    ELSE /\ ver.status = "panic"
         /\ Count(ver.log, "verify_kzg") = 0

\* a call that ran the proof check on two public values
C8_Witness ==
  /\ ver.status = "returned"
  /\ Len(ver.instances) = 2
  /\ ver.instances[1] # ver.instances[2]
  /\ GADGET_CONFIG # DefaultGadgetConfig

====
